---- MODULE Spec2Model ----
(***************************************************************************)
(* A model of proxy_resolver_v8.cc: the resolver facade ProxyResolverV8   *)
(* (SetPacScript, GetProxyForURL, PurgeMemory) over its Context, which    *)
(* owns one V8 isolate.  Strings are sequences of 16-bit code units.  A   *)
(* PAC script is represented by what the engine does with its text: its   *)
(* size, how compiling and running it ends, what it leaves under the      *)
(* global name FindProxyForURL, and what that function does when called.  *)
(***************************************************************************)
EXTENDS Integers, Sequences, FiniteSets, TLC

VARIABLES context_,   \* ProxyResolverV8::context_ : NULL or a Context
          results,    \* the caller's String16 handed to GetProxyForURL
          last,       \* what the most recent call did and returned
          crashed,    \* the process has faulted
          ctor,       \* each constructing thread's place in the constructor
          initialized_for_this_process_,  \* the static flag
          platformInits,  \* how often the V8 platform was initialized
          bcall,      \* the most recent call of a binding or IP utility
          pc,         \* where each calling thread is
          lockHolders,  \* the threads holding the isolate's lock
          binding,    \* the binding each thread's script is inside of
          ncalls,     \* binding calls made by each thread's evaluation
          loaded,     \* whether context_ holds an initialized Context
          callCtx,    \* the Context each thread's GetProxyForURL runs on
          nContexts   \* Contexts installed or being set up by SetPacScript

facadeVars == <<context_, results, last, crashed>>
ctorVars == <<ctor, initialized_for_this_process_, platformInits>>
bindVars == <<bcall>>
threadVars ==
    <<pc, lockHolders, binding, ncalls, loaded, callCtx, nContexts>>

----------------------------------------------------------------------------
(* Bounds of the model. *)

\* Longest url and longest host string the caller passes.
MaxUrlLen == 2
MaxHostLen == 1

\* The code units the caller's strings are built from: the two sides of the
\* 0x7F boundary that IsStringASCII tests.
CodeUnits == {127, 128}

StringsUpTo(max) == UNION {[1..n -> CodeUnits] : n \in 0..max}
Urls == StringsUpTo(MaxUrlLen)
Hosts == StringsUpTo(MaxHostLen)

----------------------------------------------------------------------------
(* Status codes returned by the public calls. *)

OK == "OK"
ERR_PAC_SCRIPT_FAILED == "ERR_PAC_SCRIPT_FAILED"
ERR_FAILED == "ERR_FAILED"

NULL == [null |-> TRUE]

----------------------------------------------------------------------------
(* String marshaling. *)

\* A mutation of DoIsStringASCII: the scan starts at the second code unit.
DoIsStringASCII_SkipFirst(str) ==
    \A i \in 2..Len(str) : ~(str[i] > 127)

\* for (i = 0; i < str.size(); i++) if (str[i] > 0x7F) return false; return true
DoIsStringASCII(str) ==
    \A i \in 1..Len(str) : ~(str[i] > 127)

IsStringASCII(str) == DoIsStringASCII(str)

\* s->Write(buf, 0, len); String16(buf, len): the code units, copied.
V8StringToUTF16(s) == [i \in 1..Len(s) |-> s[i] % 65536]

\* String::NewFromTwoByte(isolate, s.string(), kNormalString, s.size())
UTF16StringToV8String(s) == [i \in 1..Len(s) |-> s[i] % 65536]

----------------------------------------------------------------------------
(* JavaScript values and PAC scripts as the engine sees them. *)

JSString(s) == [type |-> "string", str |-> s]
JSNumber    == [type |-> "number", str |-> <<>>]
JSUndefined == [type |-> "undefined", str |-> <<>>]

\* "DIRECT" and "PROXY p" as code units.
DirectLiteral == <<68, 73, 82, 69, 67, 84>>
ProxyLiteral  == <<80, 82, 79, 88, 89, 32, 112>>

\* What the entry function does when called.
Bodies == {"return_url", "return_host", "return_direct", "append_non_ascii",
           "return_number", "throw", "undefine_self", "toggle"}

Script(run, entry, body) ==
    [size |-> 1, run |-> run, entry |-> entry, body |-> body]

\* script_data.size() == 0
EmptyScript == [size |-> 0, run |-> "ok", entry |-> "absent", body |-> "none"]

\* The scripts a caller may hand to SetPacScript.
PacScripts ==
    {EmptyScript}
      \cup {Script("syntax_error", "absent", "none")}
      \cup {Script("throws", "function", "return_direct")}
      \cup {Script("ok", "absent", "none")}
      \cup {Script("ok", "not_callable", "none")}
      \cup {Script("ok", "function", b) : b \in Bodies}

\* PROXY_RESOLVER_SCRIPT PROXY_RESOLVER_SCRIPT_EX: a string literal that
\* compiles and runs, and defines helpers but no FindProxyForURL.
UtilityScript == Script("ok", "absent", "none")

\* The names InitV8 sets on the global template.
BindingNames == {"alert", "myIpAddress", "dnsResolve", "dnsResolveEx",
                 "myIpAddressEx", "sortIpAddressList", "isInNetEx"}

\* Pseudo-names of the two scripts.
kPacResourceName == "proxy-pac-script.js"
kPacUtilityResourceName == "proxy-pac-utility-script.js"

\* The global object of a v8::Context made from a template with `bindings`:
\* the host functions installed, the scripts that ran to completion in it,
\* what the name FindProxyForURL holds, and the script's own global data.
NewGlobal(bindings) ==
    [bindings |-> bindings, ran |-> {},
     FindProxyForURL |-> "absent", body |-> "none", toggle |-> 0]

\* An empty v8::Persistent<v8::Context>.
EmptyHandle == NewGlobal({})

----------------------------------------------------------------------------
(* The engine: compiling, running and calling script code. *)

\* v8::Script::Compile: an empty handle (and a pending exception) on a
\* syntax error.
V8_Compile(script) == script.run # "syntax_error"

\* code->Run(): function declarations are hoisted into the global object,
\* then the top-level statements run and may throw.
V8_Run(global, script, script_name) ==
    LET declared == IF script.entry = "absent"
                    THEN global
                    ELSE [global EXCEPT !.FindProxyForURL = script.entry,
                                        !.body = script.body]
    IN  IF script.run = "throws"
        THEN [threw |-> TRUE, global |-> declared]
        ELSE [threw |-> FALSE,
              global |-> [declared EXCEPT !.ran = @ \cup {script_name}]]

\* v8::Function::Call(global, 2, argv) on the function the global object
\* holds under FindProxyForURL.
V8_Call(global, argv) ==
    CASE global.body = "return_url" ->
           [caught |-> FALSE, ret |-> JSString(argv[1]), global |-> global]
      [] global.body = "return_host" ->
           [caught |-> FALSE, ret |-> JSString(argv[2]), global |-> global]
      [] global.body = "return_direct" ->
           [caught |-> FALSE, ret |-> JSString(DirectLiteral), global |-> global]
      [] global.body = "append_non_ascii" ->
           [caught |-> FALSE, ret |-> JSString(Append(argv[1], 233)),
            global |-> global]
      [] global.body = "return_number" ->
           [caught |-> FALSE, ret |-> JSNumber, global |-> global]
      [] global.body = "throw" ->
           [caught |-> TRUE, ret |-> JSUndefined, global |-> global]
      [] global.body = "undefine_self" ->
           [caught |-> FALSE, ret |-> JSString(argv[2]),
            global |-> [global EXCEPT !.FindProxyForURL = "absent"]]
      [] global.body = "toggle" ->
           [caught |-> FALSE,
            ret |-> JSString(IF global.toggle = 0 THEN DirectLiteral
                                                  ELSE ProxyLiteral),
            global |-> [global EXCEPT !.toggle = 1 - @]]
      [] OTHER ->
           [caught |-> TRUE, ret |-> JSUndefined, global |-> global]

\* isolate_->LowMemoryNotification(): the collector frees what is
\* unreachable; what a context can reach is unchanged.
V8_LowMemoryNotification(global) == global

----------------------------------------------------------------------------
(* ProxyResolverV8::Context *)

\* Context(js_bindings, error_listener, isolate): both persistent handles
\* start empty.
NewContext == [null |-> FALSE, v8_this_ |-> FALSE, v8_context_ |-> EmptyHandle]

\* context->Global()->Get("FindProxyForURL")->IsFunction()
GetFindProxyForURL(ctx) == ctx.v8_context_.FindProxyForURL = "function"

\* if (message.IsEmpty()) return; ErrorMessage(V8StringToUTF16(message->Get()))
HandleError(message) == IF message = "" THEN <<>> ELSE <<message>>

\* Compile, run when compiled, report a caught exception.
RunScript(global, script, script_name) ==
    IF ~V8_Compile(script)
    THEN [rv |-> ERR_PAC_SCRIPT_FAILED,
          errors |-> HandleError("Uncaught SyntaxError"), global |-> global]
    ELSE LET run == V8_Run(global, script, script_name)
         IN  IF run.threw
             THEN [rv |-> ERR_PAC_SCRIPT_FAILED,
                   errors |-> HandleError("Uncaught exception"),
                   global |-> run.global]
             ELSE [rv |-> OK, errors |-> <<>>, global |-> run.global]

\* What a call did: its status, the resolver's context_ and the caller's
\* results afterwards, the ErrorMessage texts delivered, whether v8::Locker
\* was taken, whether the entry function was invoked and what it returned.
Effect(rv, ctx, res, errors, locked, called, ret) ==
    [rv |-> rv, context |-> ctx, results |-> res, errors |-> errors,
     locked |-> locked, called |-> called, ret |-> ret]

\* A mutation of InitV8: the final GetFindProxyForURL test is left out.
InitV8_NoEntryCheck(ctx, pac_script) ==
    LET global  == NewGlobal(BindingNames)
        utility == RunScript(global, UtilityScript, kPacUtilityResourceName)
        user    == RunScript(utility.global, pac_script, kPacResourceName)
        built(g) == [ctx EXCEPT !.v8_this_ = TRUE, !.v8_context_ = g]
    IN  IF utility.rv # OK
        THEN [rv |-> utility.rv, errors |-> utility.errors,
              ctx |-> built(utility.global)]
        ELSE IF user.rv # OK
        THEN [rv |-> user.rv, errors |-> user.errors,
              ctx |-> built(user.global)]
        ELSE [rv |-> OK, errors |-> <<>>, ctx |-> built(user.global)]

\* InitV8: under the lock, set v8_this_, install the bindings on the global
\* template, create the context, run the utility script, run the user's
\* script, and require FindProxyForURL to be a function.
InitV8(ctx, pac_script) ==
    LET global  == NewGlobal(BindingNames)
        utility == RunScript(global, UtilityScript, kPacUtilityResourceName)
        user    == RunScript(utility.global, pac_script, kPacResourceName)
        built(g) == [ctx EXCEPT !.v8_this_ = TRUE, !.v8_context_ = g]
    IN  IF utility.rv # OK
        THEN [rv |-> utility.rv, errors |-> utility.errors,
              ctx |-> built(utility.global)]
        ELSE IF user.rv # OK
        THEN [rv |-> user.rv, errors |-> user.errors,
              ctx |-> built(user.global)]
        ELSE IF ~GetFindProxyForURL(built(user.global))
        THEN [rv |-> ERR_PAC_SCRIPT_FAILED, errors |-> <<>>,
              ctx |-> built(user.global)]
        ELSE [rv |-> OK, errors |-> <<>>, ctx |-> built(user.global)]

\* A mutation of ResolveProxyArgv: the two arguments are swapped.
ResolveProxyArgv_Swapped(url, host) ==
    <<UTF16StringToV8String(host), UTF16StringToV8String(url)>>

\* argv[] = { UTF16StringToV8String(url), UTF16StringToV8String(host) }
ResolveProxyArgv(url, host) ==
    <<UTF16StringToV8String(url), UTF16StringToV8String(host)>>

\* A mutation of ResolveProxy: a thrown exception is reported by status
\* only, with no ErrorMessage.
ResolveProxy_SilentThrow(ctx, url, host, res) ==
    IF ~GetFindProxyForURL(ctx)
    THEN Effect(ERR_PAC_SCRIPT_FAILED, ctx, res,
                <<"FindProxyForURL() is undefined">>, TRUE, FALSE, JSUndefined)
    ELSE LET call  == V8_Call(ctx.v8_context_, ResolveProxyArgv(url, host))
             after == [ctx EXCEPT !.v8_context_ = call.global]
         IN  IF call.caught
             THEN Effect(ERR_PAC_SCRIPT_FAILED, after, res, <<>>, TRUE, TRUE,
                         call.ret)
             ELSE IF call.ret.type # "string"
             THEN Effect(ERR_PAC_SCRIPT_FAILED, after, res,
                         <<"FindProxyForURL() did not return a string.">>,
                         TRUE, TRUE, call.ret)
             ELSE LET written == V8StringToUTF16(call.ret.str)
                  IN  IF ~IsStringASCII(written)
                      THEN Effect(ERR_PAC_SCRIPT_FAILED, after, written,
                             <<"FindProxyForURL() returned a non-ASCII string">>,
                             TRUE, TRUE, call.ret)
                      ELSE Effect(OK, after, written, <<>>, TRUE, TRUE, call.ret)

\* ResolveProxy: under the lock, look the entry function up, call it with
\* (url, host), and turn a thrown exception, a non-string and a non-ASCII
\* string into ERR_PAC_SCRIPT_FAILED.  *results is assigned before the
\* ASCII test.
ResolveProxy(ctx, url, host, res) ==
    IF ~GetFindProxyForURL(ctx)
    THEN Effect(ERR_PAC_SCRIPT_FAILED, ctx, res,
                <<"FindProxyForURL() is undefined">>, TRUE, FALSE, JSUndefined)
    ELSE LET call  == V8_Call(ctx.v8_context_, ResolveProxyArgv(url, host))
             after == [ctx EXCEPT !.v8_context_ = call.global]
         IN  IF call.caught
             THEN Effect(ERR_PAC_SCRIPT_FAILED, after, res,
                         <<"Uncaught exception">>, TRUE, TRUE, call.ret)
             ELSE IF call.ret.type # "string"
             THEN Effect(ERR_PAC_SCRIPT_FAILED, after, res,
                         <<"FindProxyForURL() did not return a string.">>,
                         TRUE, TRUE, call.ret)
             ELSE LET written == V8StringToUTF16(call.ret.str)
                  IN  IF ~IsStringASCII(written)
                      THEN Effect(ERR_PAC_SCRIPT_FAILED, after, written,
                             <<"FindProxyForURL() returned a non-ASCII string">>,
                             TRUE, TRUE, call.ret)
                      ELSE Effect(OK, after, written, <<>>, TRUE, TRUE, call.ret)

\* A mutation of Context_PurgeMemory: the purge drops the script's globals.
Context_PurgeMemory_DropsGlobals(ctx) ==
    [ctx EXCEPT !.v8_context_ = NewGlobal(BindingNames)]

\* Context::PurgeMemory: under the lock, isolate_->LowMemoryNotification().
Context_PurgeMemory(ctx) ==
    [ctx EXCEPT !.v8_context_ = V8_LowMemoryNotification(@)]

----------------------------------------------------------------------------
(* ProxyResolverV8 *)

\* A mutation of GetProxyForURL_NoContext: the caller's string is cleared.
GetProxyForURL_NoContext_Clears(res) ==
    Effect(ERR_FAILED, NULL, <<>>, <<>>, FALSE, FALSE, JSUndefined)

\* if (context_ == NULL) return ERR_FAILED;
GetProxyForURL_NoContext(res) ==
    Effect(ERR_FAILED, NULL, res, <<>>, FALSE, FALSE, JSUndefined)

\* A mutation of GetProxyForURL: a failed resolution drops the context.
GetProxyForURL_DropsOnFailure(ctx, spec, host, res) ==
    IF ctx = NULL
    THEN GetProxyForURL_NoContext(res)
    ELSE LET e == ResolveProxy(ctx, spec, host, res)
         IN  IF e.rv # OK THEN [e EXCEPT !.context = NULL] ELSE e

\* ProxyResolverV8::GetProxyForURL
GetProxyForURL(ctx, spec, host, res) ==
    IF ctx = NULL
    THEN GetProxyForURL_NoContext(res)
    ELSE ResolveProxy(ctx, spec, host, res)

\* A mutation of SetPacScript: the empty test comes before the delete.
SetPacScript_EmptyFirst(ctx, script_data) ==
    IF script_data.size = 0
    THEN Effect(ERR_PAC_SCRIPT_FAILED, ctx, <<>>, <<>>, FALSE, FALSE,
                JSUndefined)
    ELSE LET init == InitV8(NewContext, script_data)
         IN  Effect(init.rv, IF init.rv # OK THEN NULL ELSE init.ctx, <<>>,
                    init.errors, TRUE, FALSE, JSUndefined)

\* A mutation of SetPacScript: context_ is kept when InitV8 fails.
SetPacScript_KeepsFailed(ctx, script_data) ==
    IF script_data.size = 0
    THEN Effect(ERR_PAC_SCRIPT_FAILED, NULL, <<>>, <<>>, ctx # NULL, FALSE,
                JSUndefined)
    ELSE LET init == InitV8(NewContext, script_data)
         IN  Effect(init.rv, init.ctx, <<>>, init.errors, TRUE, FALSE,
                    JSUndefined)

\* ProxyResolverV8::SetPacScript: delete the old context (its destructor
\* takes the lock), fail on an empty script, otherwise build a new Context
\* and keep it only when InitV8 returns OK (a Context whose InitV8 failed
\* is dropped without delete).  The results field is unused.
SetPacScript(ctx, script_data) ==
    IF script_data.size = 0
    THEN Effect(ERR_PAC_SCRIPT_FAILED, NULL, <<>>, <<>>, ctx # NULL, FALSE,
                JSUndefined)
    ELSE LET init == InitV8(NewContext, script_data)
         IN  Effect(init.rv, IF init.rv # OK THEN NULL ELSE init.ctx, <<>>,
                    init.errors, TRUE, FALSE, JSUndefined)

\* context_->PurgeMemory() through a null context_ is undefined: the read
\* of this->isolate_ faults, or yields a wild pointer that is then locked.
NullDerefOutcomes == {"fault", "wild_isolate"}

----------------------------------------------------------------------------
(* The calls a client makes. *)

NoScript == [size |-> 0, run |-> "none", entry |-> "none", body |-> "none"]

Call(op, script, url, host, e) ==
    [op |-> op, hadContext |-> context_ # NULL, script |-> script,
     url |-> url, host |-> host, resultsIn |-> results,
     rv |-> e.rv, errors |-> e.errors, locked |-> e.locked,
     called |-> e.called, ret |-> e.ret]

NoCall ==
    [op |-> "none", hadContext |-> FALSE, script |-> NoScript,
     url |-> <<>>, host |-> <<>>, resultsIn |-> <<>>,
     rv |-> "none", errors |-> <<>>, locked |-> FALSE,
     called |-> FALSE, ret |-> JSUndefined]

FacadeInit ==
    /\ context_ = NULL
    /\ results = <<>>
    /\ last = NoCall
    /\ crashed = FALSE

DoSetPacScript ==
    /\ ~crashed
    /\ \E script_data \in PacScripts :
         LET e == SetPacScript(context_, script_data)
         IN  /\ context_' = e.context
             /\ last' = Call("SetPacScript", script_data, <<>>, <<>>, e)
    /\ UNCHANGED <<results, crashed>>

DoGetProxyForURL ==
    /\ ~crashed
    /\ \E spec \in Urls, host \in Hosts :
         LET e == GetProxyForURL(context_, spec, host, results)
         IN  /\ context_' = e.context
             /\ results' = e.results
             /\ last' = Call("GetProxyForURL", NoScript, spec, host, e)
    /\ UNCHANGED crashed

DoPurgeMemory ==
    /\ ~crashed
    /\ IF context_ # NULL
       THEN /\ context_' = Context_PurgeMemory(context_)
            /\ last' = Call("PurgeMemory", NoScript, <<>>, <<>>,
                   Effect("void", context_', results, <<>>, TRUE, FALSE,
                          JSUndefined))
            /\ UNCHANGED crashed
       ELSE \E outcome \in NullDerefOutcomes :
            /\ crashed' = (outcome = "fault")
            /\ last' = Call("PurgeMemory", NoScript, <<>>, <<>>,
                   Effect("void", NULL, results, <<>>,
                          outcome = "wild_isolate", FALSE, JSUndefined))
            /\ UNCHANGED context_
    /\ UNCHANGED results

----------------------------------------------------------------------------
(* ProxyResolverV8::ProxyResolverV8 run by several threads of one process. *)

\* Threads that each construct a resolver.
NCtorThreads == 4
CtorThreads == 1..NCtorThreads

\* The static flag starts false; no constructor has started.
CtorInit ==
    /\ ctor = [t \in CtorThreads |-> "start"]
    /\ initialized_for_this_process_ = FALSE
    /\ platformInits = 0

\* if (!initialized_for_this_process_): an unsynchronized read.
CtorTestFlag(t) ==
    /\ ctor[t] = "start"
    /\ ctor' = [ctor EXCEPT ![t] = IF initialized_for_this_process_
                                   THEN "done" ELSE "init_platform"]
    /\ UNCHANGED <<initialized_for_this_process_, platformInits>>

\* CreateDefaultPlatform(); InitializePlatform(platform); Initialize();
CtorInitializePlatform(t) ==
    /\ ctor[t] = "init_platform"
    /\ platformInits' = platformInits + 1
    /\ ctor' = [ctor EXCEPT ![t] = "set_flag"]
    /\ UNCHANGED initialized_for_this_process_

\* initialized_for_this_process_ = true;
CtorSetFlag(t) ==
    /\ ctor[t] = "set_flag"
    /\ initialized_for_this_process_' = TRUE
    /\ ctor' = [ctor EXCEPT ![t] = "done"]
    /\ UNCHANGED platformInits

----------------------------------------------------------------------------
(* Narrow strings and their conversions.  A std::string is a sequence of *)
(* bytes.                                                                 *)

\* The UTF-8 bytes of one 16-bit code unit (a lone surrogate is encoded
\* like any other three-byte unit).
Utf8OfUnit(c) ==
    IF c < 128 THEN <<c>>
    ELSE IF c < 2048 THEN <<192 + (c \div 64), 128 + (c % 64)>>
    ELSE <<224 + (c \div 4096), 128 + ((c \div 64) % 64), 128 + (c % 64)>>

RECURSIVE Utf8Encode(_)
Utf8Encode(str) ==
    IF str = <<>> THEN <<>>
    ELSE Utf8OfUnit(Head(str)) \o Utf8Encode(Tail(str))

\* std::string(const char*): the bytes before the first NUL.
RECURSIVE CString(_)
CString(bytes) ==
    IF bytes = <<>> \/ Head(bytes) = 0 THEN <<>>
    ELSE <<Head(bytes)>> \o CString(Tail(bytes))

\* String8 rstr(str); return std::string(rstr.string());
UTF16ToASCII(str) == CString(Utf8Encode(str))

\* String::NewFromUtf8(isolate, s.data(), kNormalString, s.size()): each
\* byte below 0x80 is one code unit; the strings passed here are ASCII, and
\* any other byte decodes to U+FFFD.
ASCIIStringToV8String(s) ==
    [i \in 1..Len(s) |-> IF s[i] < 128 THEN s[i] ELSE 65533]

\* strlen(ascii) <= kMaxStringBytesForCopy: NewFromUtf8; else an external
\* string over the same bytes.
ASCIILiteralToV8String(ascii) == ASCIIStringToV8String(ascii)

\* "127.0.0.1"
kLoopback == <<49, 50, 55, 46, 48, 46, 48, 46, 49>>

JSNull == [type |-> "null", str |-> <<>>]
JSBoolean(b) == [type |-> "boolean", str |-> <<>>, bool |-> b]

\* What a callback leaves in args.GetReturnValue(): nothing set (the
\* script sees undefined) or a value; whether the collaborator was called
\* and with which hostname; whether the call faulted.
Returned(set, value, called, hostname) ==
    [set |-> set, value |-> value, called |-> called, hostname |-> hostname,
     fault |-> FALSE]

\* GetHostnameArgument: the first argument must be a string whose code
\* units are all ASCII.
GetHostnameArgument(args) ==
    IF Len(args) = 0 \/ args[1].type # "string"
    THEN [ok |-> FALSE, hostname |-> <<>>]
    ELSE LET hostname_utf16 == V8StringToUTF16(args[1].str)
         IN  IF IsStringASCII(hostname_utf16)
             THEN [ok |-> TRUE, hostname |-> UTF16ToASCII(hostname_utf16)]
             ELSE [ok |-> FALSE, hostname |-> <<>>]

----------------------------------------------------------------------------
(* The bindings that delegate to the network collaborator.  `collab` is    *)
(* what js_bindings_ does when called: its return value and what it wrote  *)
(* to its output string.                                                   *)

\* A mutation of MyIpAddressCallback: a failure returns what was written.
MyIpAddressCallback_KeepsOutput(args, collab) ==
    Returned(TRUE, JSString(ASCIIStringToV8String(collab.out)), TRUE, <<>>)

\* MyIpAddressCallback
MyIpAddressCallback(args, collab) ==
    IF ~collab.success
    THEN Returned(TRUE, JSString(ASCIILiteralToV8String(kLoopback)), TRUE,
                  <<>>)
    ELSE Returned(TRUE, JSString(ASCIIStringToV8String(collab.out)), TRUE,
                  <<>>)

\* MyIpAddressExCallback
MyIpAddressExCallback(args, collab) ==
    LET ip_address_list == IF ~collab.success THEN <<>> ELSE collab.out
    IN  Returned(TRUE, JSString(ASCIIStringToV8String(ip_address_list)),
                 TRUE, <<>>)

\* A mutation of DnsResolveCallback: a bad argument returns null.
DnsResolveCallback_NullOnBadArgument(args, collab) ==
    LET arg == GetHostnameArgument(args)
    IN  IF ~arg.ok
        THEN Returned(TRUE, JSNull, FALSE, <<>>)
        ELSE IF collab.success
        THEN Returned(TRUE, JSString(ASCIIStringToV8String(collab.out)),
                      TRUE, arg.hostname)
        ELSE Returned(TRUE, JSNull, TRUE, arg.hostname)

\* DnsResolveCallback
DnsResolveCallback(args, collab) ==
    LET arg == GetHostnameArgument(args)
    IN  IF ~arg.ok
        THEN Returned(FALSE, JSUndefined, FALSE, <<>>)
        ELSE IF collab.success
        THEN Returned(TRUE, JSString(ASCIIStringToV8String(collab.out)),
                      TRUE, arg.hostname)
        ELSE Returned(TRUE, JSNull, TRUE, arg.hostname)

\* A mutation of DnsResolveExCallback: a failed lookup returns what the
\* collaborator wrote.
DnsResolveExCallback_KeepsOutput(args, collab) ==
    LET arg == GetHostnameArgument(args)
    IN  IF ~arg.ok
        THEN Returned(TRUE, JSNull, FALSE, <<>>)
        ELSE Returned(TRUE, JSString(ASCIIStringToV8String(collab.out)),
                      TRUE, arg.hostname)

\* DnsResolveExCallback
DnsResolveExCallback(args, collab) ==
    LET arg == GetHostnameArgument(args)
    IN  IF ~arg.ok
        THEN Returned(TRUE, JSNull, FALSE, <<>>)
        ELSE LET ip_address_list == IF ~collab.success THEN <<>>
                                    ELSE collab.out
             IN  Returned(TRUE,
                          JSString(ASCIIStringToV8String(ip_address_list)),
                          TRUE, arg.hostname)

\* "1.2.3.4", "40.1.1.1", "::1", "0::1" and "x" as bytes.
Text_1_2_3_4  == <<49, 46, 50, 46, 51, 46, 52>>
Text_40_1_1_1 == <<52, 48, 46, 49, 46, 49, 46, 49>>
Text_v6_1     == <<58, 58, 49>>
Text_v6_0_1   == <<48, 58, 58, 49>>
Text_x        == <<120>>

\* What the collaborator may do: succeed or fail, having written nothing,
\* one address or a list.
CollabOutputs == {<<>>, Text_1_2_3_4, Text_v6_1 \o <<59>> \o Text_1_2_3_4}
Collabs == [success : BOOLEAN, out : CollabOutputs]

\* The argument lists a script may call a hostname binding with.
HostnameArgs ==
    {<<>>, <<JSNumber>>, <<JSUndefined>>}
      \cup {<<JSString(h)>> : h \in Hosts}
      \cup {<<JSString(h), JSNumber>> : h \in Hosts}

\* A call of a binding or of an IP utility: its inputs, whether it has
\* run, and what it returned.
PendingCall(name, args, collab, pieces, input) ==
    [name |-> name, args |-> args, collab |-> collab, pieces |-> pieces,
     input |-> input, done |-> FALSE,
     r |-> Returned(FALSE, JSUndefined, FALSE, <<>>)]

NoCollab == [success |-> FALSE, out |-> <<>>]
NoBindingCall == PendingCall("none", <<>>, NoCollab, <<>>, <<>>)

BindInit == bcall = NoBindingCall

HostnameCalls(name) ==
    {PendingCall(name, args, collab, <<>>, <<>>) :
        args \in HostnameArgs, collab \in Collabs}

DoMyIpAddress ==
    /\ bcall.name = "myIpAddress" /\ ~bcall.done
    /\ bcall' = [bcall EXCEPT !.done = TRUE,
                     !.r = MyIpAddressCallback(bcall.args, bcall.collab)]

DoMyIpAddressEx ==
    /\ bcall.name = "myIpAddressEx" /\ ~bcall.done
    /\ bcall' = [bcall EXCEPT !.done = TRUE,
                     !.r = MyIpAddressExCallback(bcall.args, bcall.collab)]

DoDnsResolve ==
    /\ bcall.name = "dnsResolve" /\ ~bcall.done
    /\ bcall' = [bcall EXCEPT !.done = TRUE,
                     !.r = DnsResolveCallback(bcall.args, bcall.collab)]

DoDnsResolveEx ==
    /\ bcall.name = "dnsResolveEx" /\ ~bcall.done
    /\ bcall' = [bcall EXCEPT !.done = TRUE,
                     !.r = DnsResolveExCallback(bcall.args, bcall.collab)]

----------------------------------------------------------------------------
(* SortIpAddressList and its binding. *)

\* How many ';'-separated pieces an input list is built from.
MaxPieces == 3

\* "1.2. 3.4" (an address with a space inside) and "1.2.3.4<NUL>x".
Text_spaced == <<49, 46, 50, 46, 32, 51, 46, 52>>
Text_nul_x  == Text_1_2_3_4 \o <<0>> \o Text_x

Pieces ==
    {Text_1_2_3_4, Text_40_1_1_1, Text_v6_1, Text_v6_0_1, Text_x,
     Text_spaced, Text_nul_x, <<>>, <<32, 9>>}
PieceLists == UNION {[1..n -> Pieces] : n \in 1..MaxPieces}

RECURSIVE JoinWith(_, _)
JoinWith(strings, sep) ==
    IF strings = <<>> THEN <<>>
    ELSE IF Len(strings) = 1 THEN strings[1]
    ELSE strings[1] \o sep \o JoinWith(Tail(strings), sep)

\* net::ParseIPLiteralToNumber: the address bytes of an IPv4 or IPv6
\* literal, or failure.
ParseIPLiteralToNumber(ip_literal) ==
    IF ip_literal = Text_1_2_3_4
    THEN [ok |-> TRUE, number |-> <<1, 2, 3, 4>>]
    ELSE IF ip_literal = Text_40_1_1_1
    THEN [ok |-> TRUE, number |-> <<40, 1, 1, 1>>]
    ELSE IF ip_literal \in {Text_v6_1, Text_v6_0_1}
    THEN [ok |-> TRUE, number |-> [i \in 1..16 |-> IF i = 16 THEN 1 ELSE 0]]
    ELSE [ok |-> FALSE, number |-> <<>>]

IPAddress(ip_string, ip_number) ==
    [string_value |-> ip_string, ip_address_number |-> ip_number]

\* memcmp over the first n bytes: -1, 0 or 1.
RECURSIVE memcmp(_, _, _)
memcmp(a, b, n) ==
    IF n = 0 THEN 0
    ELSE IF a[1] < b[1] THEN -1
    ELSE IF a[1] > b[1] THEN 1
    ELSE memcmp(Tail(a), Tail(b), n - 1)

\* A mutation of IPAddress::operator<: the shorter address first.
IPAddress_Less_ShorterFirst(lhs, rhs) ==
    LET ip1 == lhs.ip_address_number
        ip2 == rhs.ip_address_number
    IN  IF Len(ip1) # Len(ip2)
        THEN Len(ip1) < Len(ip2)
        ELSE memcmp(ip1, ip2, Len(ip1)) < 0

\* IPAddress::operator<
IPAddress_Less(lhs, rhs) ==
    LET ip1 == lhs.ip_address_number
        ip2 == rhs.ip_address_number
    IN  IF Len(ip1) # Len(ip2)
        THEN Len(ip1) > Len(ip2)
        ELSE memcmp(ip1, ip2, Len(ip1)) < 0

\* RemoveCharsT: every character of remove_chars is erased from the input.
RemoveChars(input, remove_chars) ==
    [removed |-> \E i \in 1..Len(input) : input[i] \in remove_chars,
     output |-> SelectSeq(input, LAMBDA c : c \notin remove_chars)]

\* The calls of strtok(str, ";") until it returns NULL: the maximal runs
\* of characters other than ';' in a NUL-terminated string.
RECURSIVE strtok(_, _)
strtok(str, cur) ==
    IF str = <<>>
    THEN IF cur = <<>> THEN <<>> ELSE <<cur>>
    ELSE IF Head(str) = 59
    THEN (IF cur = <<>> THEN <<>> ELSE <<cur>>) \o strtok(Tail(str), <<>>)
    ELSE strtok(Tail(str), cur \o <<Head(str)>>)

\* The while loop of SortIpAddressList: parse token after token, stop at
\* the first that fails.
RECURSIVE ParseTokens(_, _)
ParseTokens(toks, ip_vector) ==
    IF toks = <<>> THEN [ok |-> TRUE, ip_vector |-> ip_vector]
    ELSE LET parsed == ParseIPLiteralToNumber(Head(toks))
         IN  IF ~parsed.ok
             THEN [ok |-> FALSE, ip_vector |-> ip_vector]
             ELSE ParseTokens(Tail(toks),
                      Append(ip_vector, IPAddress(Head(toks), parsed.number)))

\* std::stable_sort with operator<: an element moves ahead only of the
\* elements it is less than.
RECURSIVE InsertSorted(_, _)
InsertSorted(v, x) ==
    IF v = <<>> THEN <<x>>
    ELSE IF IPAddress_Less(x, v[Len(v)])
    THEN Append(InsertSorted(SubSeq(v, 1, Len(v) - 1), x), v[Len(v)])
    ELSE Append(v, x)

RECURSIVE stable_sort(_)
stable_sort(v) ==
    IF Len(v) <= 1 THEN v
    ELSE InsertSorted(stable_sort(SubSeq(v, 1, Len(v) - 1)), v[Len(v)])

SortResult(success, sorted, ip_vector) ==
    [success |-> success, sorted |-> sorted, ip_vector |-> ip_vector]

\* A mutation of SortIpAddressList: no test for an empty vector.
SortIpAddressList_NoEmptyTest(ip_address_list) ==
    LET cleaned_ip_address_list == RemoveChars(ip_address_list, {32, 9}).output
    IN  IF cleaned_ip_address_list = <<>> THEN SortResult(FALSE, <<>>, <<>>)
        ELSE LET p == ParseTokens(
                          strtok(CString(cleaned_ip_address_list), <<>>), <<>>)
             IN  IF ~p.ok THEN SortResult(FALSE, <<>>, p.ip_vector)
                 ELSE LET sorted == stable_sort(p.ip_vector)
                      IN  SortResult(TRUE,
                              JoinWith([i \in 1..Len(sorted) |->
                                          sorted[i].string_value], <<59>>),
                              p.ip_vector)

\* SortIpAddressList: the returned flag, *sorted_ip_address_list, and the
\* vector as it was before sorting.
SortIpAddressList(ip_address_list) ==
    LET cleaned_ip_address_list == RemoveChars(ip_address_list, {32, 9}).output
    IN  IF cleaned_ip_address_list = <<>> THEN SortResult(FALSE, <<>>, <<>>)
        ELSE LET p == ParseTokens(
                          strtok(CString(cleaned_ip_address_list), <<>>), <<>>)
             IN  IF ~p.ok THEN SortResult(FALSE, <<>>, p.ip_vector)
                 ELSE IF p.ip_vector = <<>>
                 THEN SortResult(FALSE, <<>>, <<>>)
                 ELSE LET sorted == IF Len(p.ip_vector) > 1
                                    THEN stable_sort(p.ip_vector)
                                    ELSE p.ip_vector
                      IN  SortResult(TRUE,
                              JoinWith([i \in 1..Len(sorted) |->
                                          sorted[i].string_value], <<59>>),
                              p.ip_vector)

\* V8StringToUTF8: the buffer is sized for Length() + 1 bytes and the
\* string's size is Length(), but WriteUtf8 is given no capacity and writes
\* the whole encoding and a NUL.  When the encoding is longer than
\* Length() the write runs past the requested size: either it still fits
\* the allocation and the string holds the first Length() bytes, or it
\* overruns the allocation.
V8StringToUTF8(s) ==
    LET utf8 == Utf8Encode(s)
    IN  IF Len(utf8) = Len(s)
        THEN {[fault |-> FALSE, result |-> utf8]}
        ELSE {[fault |-> FALSE, result |-> SubSeq(utf8, 1, Len(s))],
              [fault |-> TRUE, result |-> <<>>]}

Faulted ==
    [set |-> FALSE, value |-> JSUndefined, called |-> FALSE,
     hostname |-> <<>>, fault |-> TRUE]

\* SortIpAddressListCallback, given the outcome of V8StringToUTF8.
SortIpAddressListCallback(args, utf8) ==
    IF Len(args) = 0 \/ args[1].type # "string"
    THEN Returned(TRUE, JSNull, FALSE, <<>>)
    ELSE IF utf8.fault THEN Faulted
    ELSE LET sorted == SortIpAddressList(utf8.result)
         IN  IF ~sorted.success
             THEN Returned(TRUE, JSBoolean(FALSE), FALSE, <<>>)
             ELSE Returned(TRUE,
                           JSString(ASCIIStringToV8String(sorted.sorted)),
                           FALSE, <<>>)

\* The strings a script may pass: the lists above, and lists with a
\* character outside ASCII (U+00E9).
SortArgs ==
    {<<>>, <<JSNumber>>}
      \cup {<<JSString(JoinWith(ps, <<59>>))>> : ps \in PieceLists}
      \cup {<<JSString(JoinWith(ps, <<59>>) \o <<233>>)>> : ps \in PieceLists}

SortCalls ==
    {PendingCall("SortIpAddressList", <<>>, NoCollab, ps,
                 JoinWith(ps, <<59>>)) : ps \in PieceLists}
SortCallbackCalls ==
    {PendingCall("sortIpAddressList", args, NoCollab, <<>>, <<>>) :
        args \in SortArgs}

DoSortIpAddressList ==
    /\ bcall.name = "SortIpAddressList" /\ ~bcall.done
    /\ bcall' = [bcall EXCEPT !.done = TRUE,
                     !.r = SortIpAddressList(bcall.input)]

DoSortIpAddressListCallback ==
    /\ bcall.name = "sortIpAddressList" /\ ~bcall.done
    /\ \E utf8 \in (IF Len(bcall.args) > 0 /\ bcall.args[1].type = "string"
                    THEN V8StringToUTF8(bcall.args[1].str)
                    ELSE {[fault |-> FALSE, result |-> <<>>]}) :
           bcall' = [bcall EXCEPT !.done = TRUE,
                         !.r = SortIpAddressListCallback(bcall.args, utf8)]

----------------------------------------------------------------------------
(* IsInNetEx and its binding. *)

\* The parts of a text between its '/' characters.
RECURSIVE SplitSlash(_, _)
SplitSlash(str, cur) ==
    IF str = <<>> THEN <<cur>>
    ELSE IF Head(str) = 47 THEN <<cur>> \o SplitSlash(Tail(str), <<>>)
    ELSE SplitSlash(Tail(str), Append(cur, Head(str)))

\* The value of a non-empty string of decimal digits, or -1.
RECURSIVE DecimalValue(_, _)
DecimalValue(digits, acc) ==
    IF digits = <<>> THEN acc
    ELSE IF Head(digits) \notin 48..57 THEN -1
    ELSE DecimalValue(Tail(digits), 10 * acc + (Head(digits) - 48))

\* net::ParseCIDRBlock: "address/bitlength" with an IP literal and a bit
\* length within the address's size.
ParseCIDRBlock(cidr_literal) ==
    LET parts == SplitSlash(cidr_literal, <<>>)
        fail  == [ok |-> FALSE, prefix |-> <<>>, prefix_length_in_bits |-> 0]
    IN  IF Len(parts) # 2 THEN fail
        ELSE LET ip == ParseIPLiteralToNumber(parts[1])
                 n  == IF parts[2] = <<>> THEN -1
                       ELSE DecimalValue(parts[2], 0)
             IN  IF ~ip.ok \/ n < 0 \/ n > 8 * Len(ip.number) THEN fail
                 ELSE [ok |-> TRUE, prefix |-> ip.number,
                       prefix_length_in_bits |-> n]

Pow2(k) == IF k = 0 THEN 1 ELSE IF k = 1 THEN 2 ELSE IF k = 2 THEN 4
           ELSE IF k = 3 THEN 8 ELSE IF k = 4 THEN 16 ELSE IF k = 5 THEN 32
           ELSE IF k = 6 THEN 64 ELSE IF k = 7 THEN 128 ELSE 256

\* net::IPNumberMatchesPrefix: the whole bytes of the prefix are compared,
\* then the remaining bits under a mask.
IPNumberMatchesPrefix(ip_number, ip_prefix, prefix_length_in_bits) ==
    LET num_entire_bytes == prefix_length_in_bits \div 8
        remaining_bits   == prefix_length_in_bits % 8
    IN  /\ \A i \in 1..num_entire_bytes : ip_number[i] = ip_prefix[i]
        /\ remaining_bits # 0 =>
               (ip_number[num_entire_bytes + 1] \div Pow2(8 - remaining_bits))
                 = (ip_prefix[num_entire_bytes + 1] \div Pow2(8 - remaining_bits))

\* IsInNetEx
IsInNetEx(ip_address, ip_prefix) ==
    IF RemoveChars(ip_address, {32, 9}).removed THEN FALSE
    ELSE LET address == ParseIPLiteralToNumber(ip_address)
         IN  IF ~address.ok THEN FALSE
             ELSE LET cidr == ParseCIDRBlock(ip_prefix)
                  IN  IF ~cidr.ok THEN FALSE
                      ELSE IF Len(address.number) # Len(cidr.prefix)
                      THEN FALSE
                      ELSE IPNumberMatchesPrefix(address.number, cidr.prefix,
                               cidr.prefix_length_in_bits)

\* IsInNetExCallback, given the outcomes of its two V8StringToUTF8 calls.
IsInNetExCallback(args, utf8_address, utf8_prefix) ==
    IF Len(args) < 2 \/ args[1].type # "string" \/ args[2].type # "string"
    THEN Returned(TRUE, JSNull, FALSE, <<>>)
    ELSE IF utf8_address.fault \/ utf8_prefix.fault THEN Faulted
    ELSE Returned(TRUE,
                  JSBoolean(IsInNetEx(utf8_address.result, utf8_prefix.result)),
                  FALSE, <<>>)

\* The bit lengths "0", "2", "3", "32", "33", "128", "" and "x".
BitLengthTexts ==
    {<<48>>, <<50>>, <<51>>, <<51, 50>>, <<51, 51>>, <<49, 50, 56>>, <<>>,
     Text_x}
AddressTexts ==
    {Text_1_2_3_4, Text_40_1_1_1, Text_v6_1, Text_x, Text_spaced}
PrefixTexts ==
    {a \o <<47>> \o n : a \in AddressTexts \ {Text_spaced},
                        n \in BitLengthTexts}
      \cup {Text_1_2_3_4, Text_1_2_3_4 \o <<47, 50, 47, 50>>}

\* The argument lists a script may call isInNetEx with: too few, of the
\* wrong type, two ASCII strings, or with a character outside ASCII.
IsInNetArgs ==
    {<<>>, <<JSString(Text_1_2_3_4)>>,
     <<JSNumber, JSString(Text_1_2_3_4 \o <<47, 50>>)>>,
     <<JSString(Text_1_2_3_4), JSUndefined>>}
      \cup {<<JSString(a), JSString(p)>> :
                a \in AddressTexts, p \in PrefixTexts}
      \cup {<<JSString(a \o <<233>>), JSString(p)>> :
                a \in AddressTexts, p \in PrefixTexts}
      \cup {<<JSString(a), JSString(p \o <<233>>)>> :
                a \in AddressTexts, p \in PrefixTexts}

IsInNetCalls ==
    {PendingCall("isInNetEx", args, NoCollab, <<>>, <<>>) :
        args \in IsInNetArgs}

DoIsInNetExCallback ==
    /\ bcall.name = "isInNetEx" /\ ~bcall.done
    /\ LET strings == /\ Len(bcall.args) >= 2
                      /\ bcall.args[1].type = "string"
                      /\ bcall.args[2].type = "string"
           none    == {[fault |-> FALSE, result |-> <<>>]}
       IN  \E utf8_address \in (IF strings
                                THEN V8StringToUTF8(bcall.args[1].str)
                                ELSE none),
              utf8_prefix \in (IF strings
                               THEN V8StringToUTF8(bcall.args[2].str)
                               ELSE none) :
               bcall' = [bcall EXCEPT !.done = TRUE,
                             !.r = IsInNetExCallback(bcall.args, utf8_address,
                                                     utf8_prefix)]

\* The calls a script can make.
BindingCalls ==
    HostnameCalls("myIpAddress") \cup HostnameCalls("myIpAddressEx")
      \cup HostnameCalls("dnsResolve") \cup HostnameCalls("dnsResolveEx")
      \cup SortCalls \cup SortCallbackCalls \cup IsInNetCalls

----------------------------------------------------------------------------
(* Threads calling one resolver.  Each API call is a sequence of steps;   *)
(* v8::Locker blocks until no thread holds the isolate, v8::Unlocker      *)
(* gives the isolate up for the extent of its scope.                      *)

NThreads == 2
Threads == 1..NThreads

\* How many bindings one evaluation of FindProxyForURL calls.
MaxBindingCalls == 1

NetworkBindings == {"myIpAddress", "myIpAddressEx", "dnsResolve", "dnsResolveEx"}

ThreadInit ==
    /\ pc = [t \in Threads |-> "idle"]
    /\ lockHolders = {}
    /\ binding = [t \in Threads |-> "none"]
    /\ ncalls = [t \in Threads |-> 0]
    /\ loaded = FALSE
    /\ callCtx = [t \in Threads |-> "none"]
    /\ nContexts = 0

\* v8::Locker locked(isolate_): wait until no thread holds the isolate.
Locker(t) == lockHolders = {} /\ lockHolders' = {t}
\* ~Locker, and the constructor of v8::Unlocker.
ReleaseLock(t) == lockHolders' = lockHolders \ {t}

Goto(t, label) == pc' = [pc EXCEPT ![t] = label]

InSetPacScript(t) ==
    pc[t] \in {"teardown_wait", "teardown", "init_wait", "loading"}

\* SetPacScript, called while no other call is in progress.
ThreadSetPacScript(t) ==
    /\ pc[t] = "idle"
    /\ \A u \in Threads \ {t} : pc[u] = "idle"
    /\ Goto(t, IF loaded THEN "teardown_wait" ELSE "init_wait")
    /\ UNCHANGED <<lockHolders, binding, ncalls, loaded, callCtx, nContexts>>

\* delete context_: ~Context takes the lock ...
ContextTeardownEnter(t) ==
    /\ pc[t] = "teardown_wait"
    /\ Locker(t)
    /\ Goto(t, "teardown")
    /\ UNCHANGED <<binding, ncalls, loaded, callCtx, nContexts>>

\* ... resets the handles and releases it; an empty script ends the call.
ContextTeardownExit(t) ==
    /\ pc[t] = "teardown"
    /\ ReleaseLock(t)
    /\ loaded' = FALSE
    /\ nContexts' = nContexts - 1
    /\ callCtx' = [u \in Threads |->
                      IF callCtx[u] = "live" THEN "freed" ELSE callCtx[u]]
    /\ \E empty \in BOOLEAN : Goto(t, IF empty THEN "idle" ELSE "init_wait")
    /\ UNCHANGED <<binding, ncalls>>

\* InitV8 takes the lock of the new isolate ...
InitV8Enter(t) ==
    /\ pc[t] = "init_wait"
    /\ Locker(t)
    /\ Goto(t, "loading")
    /\ nContexts' = nContexts + 1
    /\ UNCHANGED <<binding, ncalls, loaded, callCtx>>

\* ... and releases it when the script is loaded or has failed.
InitV8Exit(t) ==
    /\ pc[t] = "loading"
    /\ ReleaseLock(t)
    /\ \E ok \in BOOLEAN :
           /\ loaded' = ok
           /\ nContexts' = IF ok THEN nContexts ELSE nContexts - 1
    /\ Goto(t, "idle")
    /\ UNCHANGED <<binding, ncalls, callCtx>>

\* GetProxyForURL with a context: on to Context::ResolveProxy.
ThreadGetProxyForURL(t) ==
    /\ pc[t] = "idle"
    /\ loaded
    /\ \A u \in Threads : ~InSetPacScript(u)
    /\ Goto(t, "resolve_wait")
    /\ callCtx' = [callCtx EXCEPT ![t] = "live"]
    /\ UNCHANGED <<lockHolders, binding, ncalls, loaded, nContexts>>

\* ResolveProxy takes the lock and calls FindProxyForURL.
ResolveProxyEnter(t) ==
    /\ pc[t] = "resolve_wait"
    /\ callCtx[t] = "live"
    /\ Locker(t)
    /\ Goto(t, "evaluate")
    /\ ncalls' = [ncalls EXCEPT ![t] = 0]
    /\ UNCHANGED <<binding, loaded, callCtx, nContexts>>

\* The running script calls one of the network bindings.
ScriptCallsBinding(t) ==
    /\ pc[t] = "evaluate"
    /\ ncalls[t] < MaxBindingCalls
    /\ \E b \in NetworkBindings : binding' = [binding EXCEPT ![t] = b]
    /\ ncalls' = [ncalls EXCEPT ![t] = @ + 1]
    /\ Goto(t, "binding_entry")
    /\ UNCHANGED <<lockHolders, loaded, callCtx, nContexts>>

\* dnsResolve and dnsResolveEx return at once when GetHostnameArgument
\* fails.
BindingRejectsArgument(t) ==
    /\ pc[t] = "binding_entry"
    /\ binding[t] \in {"dnsResolve", "dnsResolveEx"}
    /\ binding' = [binding EXCEPT ![t] = "none"]
    /\ Goto(t, "evaluate")
    /\ UNCHANGED <<lockHolders, ncalls, loaded, callCtx, nContexts>>

\* A mutation of BindingCallCollaborator: no v8::Unlocker.
BindingCallCollaborator_NoUnlocker(t) ==
    /\ pc[t] = "binding_entry"
    /\ Goto(t, "collab")
    /\ UNCHANGED <<lockHolders, binding, ncalls, loaded, callCtx, nContexts>>

\* v8::Unlocker unlocker(...); the collaborator is called.
BindingCallCollaborator(t) ==
    /\ pc[t] = "binding_entry"
    /\ ReleaseLock(t)
    /\ Goto(t, "collab")
    /\ UNCHANGED <<binding, ncalls, loaded, callCtx, nContexts>>

\* The collaborator returns; the scope of the Unlocker ends.
CollaboratorReturns(t) ==
    /\ pc[t] = "collab"
    /\ Goto(t, "relock")
    /\ UNCHANGED <<lockHolders, binding, ncalls, loaded, callCtx, nContexts>>

\* ~Unlocker: wait for the isolate and take it again.
BindingRelock(t) ==
    /\ pc[t] = "relock"
    /\ callCtx[t] = "live"
    /\ Locker(t)
    /\ Goto(t, "set_return")
    /\ UNCHANGED <<binding, ncalls, loaded, callCtx, nContexts>>

\* args.GetReturnValue().Set(...); back in the script.
BindingReturn(t) ==
    /\ pc[t] = "set_return"
    /\ binding' = [binding EXCEPT ![t] = "none"]
    /\ Goto(t, "evaluate")
    /\ UNCHANGED <<lockHolders, ncalls, loaded, callCtx, nContexts>>

\* FindProxyForURL has returned or thrown; ResolveProxy returns.
ResolveProxyExit(t) ==
    /\ pc[t] = "evaluate"
    /\ ReleaseLock(t)
    /\ Goto(t, "idle")
    /\ callCtx' = [callCtx EXCEPT ![t] = "none"]
    /\ UNCHANGED <<binding, ncalls, loaded, nContexts>>

\* ProxyResolverV8::PurgeMemory with a context.
ThreadPurgeMemory(t) ==
    /\ pc[t] = "idle"
    /\ loaded
    /\ \A u \in Threads : ~InSetPacScript(u)
    /\ Goto(t, "purge_wait")
    /\ UNCHANGED <<lockHolders, binding, ncalls, loaded, callCtx, nContexts>>

\* A mutation of PurgeMemoryEnter: no v8::Locker.
PurgeMemoryEnter_NoLocker(t) ==
    /\ pc[t] = "purge_wait"
    /\ Goto(t, "purging")
    /\ UNCHANGED <<lockHolders, binding, ncalls, loaded, callCtx, nContexts>>

\* Context::PurgeMemory takes the lock ...
PurgeMemoryEnter(t) ==
    /\ pc[t] = "purge_wait"
    /\ Locker(t)
    /\ Goto(t, "purging")
    /\ UNCHANGED <<binding, ncalls, loaded, callCtx, nContexts>>

\* ... notifies the isolate and releases it.
PurgeMemoryExit(t) ==
    /\ pc[t] = "purging"
    /\ ReleaseLock(t)
    /\ Goto(t, "idle")
    /\ UNCHANGED <<binding, ncalls, loaded, callCtx, nContexts>>

----------------------------------------------------------------------------

\* A mutation of RaceSetPacScript: the old context is not deleted.
RaceSetPacScript_NoTeardown(t) ==
    /\ pc[t] = "idle"
    /\ \A u \in Threads \ {t} : ~InSetPacScript(u)
    /\ Goto(t, "init_wait")
    /\ UNCHANGED <<lockHolders, binding, ncalls, loaded, callCtx, nContexts>>

\* SetPacScript, called at any time except during another SetPacScript.
RaceSetPacScript(t) ==
    /\ pc[t] = "idle"
    /\ \A u \in Threads \ {t} : ~InSetPacScript(u)
    /\ Goto(t, IF loaded THEN "teardown_wait" ELSE "init_wait")
    /\ UNCHANGED <<lockHolders, binding, ncalls, loaded, callCtx, nContexts>>

\* GetProxyForURL, called at any time: it reads context_ with no lock
\* held and calls ResolveProxy on what it read.
RaceGetProxyForURL(t) ==
    /\ pc[t] = "idle"
    /\ loaded
    /\ Goto(t, "resolve_wait")
    /\ callCtx' = [callCtx EXCEPT ![t] = "live"]
    /\ UNCHANGED <<lockHolders, binding, ncalls, loaded, nContexts>>

\* A thread goes on with a Context that was deleted under it: it uses
\* freed memory, and the call either happens to return or the process
\* faults.
UseAfterFree(t) ==
    /\ callCtx[t] = "freed"
    /\ pc[t] \in {"resolve_wait", "relock"}
    /\ \E outcome \in {"returns", "fault"} :
           IF outcome = "returns"
           THEN /\ Goto(t, "idle")
                /\ callCtx' = [callCtx EXCEPT ![t] = "none"]
                /\ binding' = [binding EXCEPT ![t] = "none"]
           ELSE /\ pc' = [u \in Threads |-> "fault"]
                /\ UNCHANGED <<callCtx, binding>>
    /\ UNCHANGED <<lockHolders, ncalls, loaded, nContexts>>

----------------------------------------------------------------------------
(* Specifications. *)

vars == <<facadeVars, ctorVars, bindVars, threadVars>>

\* One client calling the public interface, one call after another.
Init == FacadeInit /\ CtorInit /\ BindInit /\ ThreadInit
Next ==
    \/ DoSetPacScript /\ UNCHANGED <<ctorVars, bindVars, threadVars>>
    \/ DoGetProxyForURL /\ UNCHANGED <<ctorVars, bindVars, threadVars>>
    \/ DoPurgeMemory /\ UNCHANGED <<ctorVars, bindVars, threadVars>>
Spec == Init /\ [][Next]_vars

\* Several threads constructing resolvers in one process.
NextCtor ==
    \E t \in CtorThreads :
        \/ CtorTestFlag(t) /\ UNCHANGED <<facadeVars, bindVars, threadVars>>
        \/ CtorInitializePlatform(t) /\ UNCHANGED <<facadeVars, bindVars, threadVars>>
        \/ CtorSetFlag(t) /\ UNCHANGED <<facadeVars, bindVars, threadVars>>
SpecCtor == Init /\ [][NextCtor]_vars

\* One call by a script of one binding, with any arguments and any
\* behaviour of the collaborator.
InitBindings ==
    FacadeInit /\ CtorInit /\ ThreadInit /\ bcall \in BindingCalls
NextBindings ==
    \/ DoMyIpAddress /\ UNCHANGED <<facadeVars, ctorVars, threadVars>>
    \/ DoMyIpAddressEx /\ UNCHANGED <<facadeVars, ctorVars, threadVars>>
    \/ DoDnsResolve /\ UNCHANGED <<facadeVars, ctorVars, threadVars>>
    \/ DoDnsResolveEx /\ UNCHANGED <<facadeVars, ctorVars, threadVars>>
    \/ DoSortIpAddressList /\ UNCHANGED <<facadeVars, ctorVars, threadVars>>
    \/ DoSortIpAddressListCallback /\ UNCHANGED <<facadeVars, ctorVars, threadVars>>
    \/ DoIsInNetExCallback /\ UNCHANGED <<facadeVars, ctorVars, threadVars>>
SpecBindings == InitBindings /\ [][NextBindings]_vars

\* Threads calling SetPacScript (alone), GetProxyForURL and PurgeMemory.
NextThreads ==
    \E t \in Threads :
        \/ ThreadSetPacScript(t) /\ UNCHANGED <<facadeVars, ctorVars, bindVars>>
        \/ ContextTeardownEnter(t) /\ UNCHANGED <<facadeVars, ctorVars, bindVars>>
        \/ ContextTeardownExit(t) /\ UNCHANGED <<facadeVars, ctorVars, bindVars>>
        \/ InitV8Enter(t) /\ UNCHANGED <<facadeVars, ctorVars, bindVars>>
        \/ InitV8Exit(t) /\ UNCHANGED <<facadeVars, ctorVars, bindVars>>
        \/ ThreadGetProxyForURL(t) /\ UNCHANGED <<facadeVars, ctorVars, bindVars>>
        \/ ResolveProxyEnter(t) /\ UNCHANGED <<facadeVars, ctorVars, bindVars>>
        \/ ScriptCallsBinding(t) /\ UNCHANGED <<facadeVars, ctorVars, bindVars>>
        \/ BindingRejectsArgument(t) /\ UNCHANGED <<facadeVars, ctorVars, bindVars>>
        \/ BindingCallCollaborator(t) /\ UNCHANGED <<facadeVars, ctorVars, bindVars>>
        \/ CollaboratorReturns(t) /\ UNCHANGED <<facadeVars, ctorVars, bindVars>>
        \/ BindingRelock(t) /\ UNCHANGED <<facadeVars, ctorVars, bindVars>>
        \/ BindingReturn(t) /\ UNCHANGED <<facadeVars, ctorVars, bindVars>>
        \/ ResolveProxyExit(t) /\ UNCHANGED <<facadeVars, ctorVars, bindVars>>
        \/ ThreadPurgeMemory(t) /\ UNCHANGED <<facadeVars, ctorVars, bindVars>>
        \/ PurgeMemoryEnter(t) /\ UNCHANGED <<facadeVars, ctorVars, bindVars>>
        \/ PurgeMemoryExit(t) /\ UNCHANGED <<facadeVars, ctorVars, bindVars>>
SpecThreads == Init /\ [][NextThreads]_vars

\* The scheduler runs every thread that can take a step, and a thread that
\* waits for the isolate gets it if it is free again and again.  Nothing
\* makes a caller start a call, a script call a binding, or the
\* collaborator return.
otherVars == <<facadeVars, ctorVars, bindVars>>
ThreadFairness(t) ==
    /\ SF_vars((\/ ContextTeardownEnter(t)
                 \/ InitV8Enter(t)
                 \/ ResolveProxyEnter(t)
                 \/ BindingRelock(t)
                 \/ PurgeMemoryEnter(t)) /\ UNCHANGED otherVars)
    /\ WF_vars((\/ ContextTeardownExit(t)
                 \/ InitV8Exit(t)
                 \/ BindingRejectsArgument(t)
                 \/ BindingCallCollaborator(t)
                 \/ BindingReturn(t)
                 \/ ResolveProxyExit(t)
                 \/ PurgeMemoryExit(t)) /\ UNCHANGED otherVars)
SpecThreadsFair ==
    Init /\ [][NextThreads]_vars /\ \A t \in Threads : ThreadFairness(t)

\* Threads calling SetPacScript and GetProxyForURL with nothing to keep
\* the two apart.
NextRace ==
    \E t \in Threads :
        \/ RaceSetPacScript(t) /\ UNCHANGED otherVars
        \/ ContextTeardownEnter(t) /\ UNCHANGED otherVars
        \/ ContextTeardownExit(t) /\ UNCHANGED otherVars
        \/ InitV8Enter(t) /\ UNCHANGED otherVars
        \/ InitV8Exit(t) /\ UNCHANGED otherVars
        \/ RaceGetProxyForURL(t) /\ UNCHANGED otherVars
        \/ ResolveProxyEnter(t) /\ UNCHANGED otherVars
        \/ ScriptCallsBinding(t) /\ UNCHANGED otherVars
        \/ BindingRejectsArgument(t) /\ UNCHANGED otherVars
        \/ BindingCallCollaborator(t) /\ UNCHANGED otherVars
        \/ CollaboratorReturns(t) /\ UNCHANGED otherVars
        \/ BindingRelock(t) /\ UNCHANGED otherVars
        \/ BindingReturn(t) /\ UNCHANGED otherVars
        \/ ResolveProxyExit(t) /\ UNCHANGED otherVars
        \/ UseAfterFree(t) /\ UNCHANGED otherVars
SpecRace == Init /\ [][NextRace]_vars

----------------------------------------------------------------------------
(* Properties. *)

\* A code unit above 0x7F occurs in s.
HasNonAscii(s) == \E i \in 1..Len(s) : s[i] > 127

AfterGet == last.op = "GetProxyForURL"
AfterSet == last.op = "SetPacScript"
AfterPurge == last.op = "PurgeMemory"

\* Why SetPacScript must refuse a script, "OK" when it must not.
FailureKind(script) ==
    IF script.size = 0 THEN "ScriptEmpty"
    ELSE IF script.run # "ok" THEN "CompileFailure"
    ELSE IF script.entry # "function" THEN "EntryMissing"
    ELSE "OK"

\* C1: GetProxyForURL with no context loaded returns ERR_FAILED
\* (NotInitialized) without taking the engine lock, without invoking the
\* script or the error collaborator, and leaves the caller's result string
\* and the (absent) context as they were.
C1_NotInitializedWithoutEngine ==
    (AfterGet /\ ~last.hadContext) =>
        /\ last.rv = ERR_FAILED
        /\ ~last.locked
        /\ ~last.called
        /\ last.errors = <<>>
        /\ results = last.resultsIn
        /\ context_ = NULL

\* A GetProxyForURL made after a failed SetPacScript that discarded a
\* context an earlier call had filled the caller's string from.
C1_Witness ==
    /\ AfterGet
    /\ ~last.hadContext
    /\ last.rv = ERR_FAILED
    /\ results # <<>>

\* C2: when the entry function returns a string of code units <= 0x7F,
\* GetProxyForURL returns OK, the caller's result is exactly that string,
\* no error message is delivered, and the function saw (url, host) in that
\* order: a script returning its first argument yields url, one returning
\* its second yields host.
C2_AsciiResultReturnedExactly ==
    (AfterGet /\ last.called /\ last.ret.type = "string"
        /\ ~HasNonAscii(last.ret.str)) =>
        /\ last.rv = OK
        /\ results = last.ret.str
        /\ last.errors = <<>>
        /\ (context_.v8_context_.body = "return_url" => results = last.url)
        /\ (context_.v8_context_.body = "return_host" => results = last.host)

\* An OK answer from a script returning its first argument, with url and
\* host different and the caller's string overwritten.
C2_Witness ==
    /\ AfterGet
    /\ last.rv = OK
    /\ context_.v8_context_.body = "return_url"
    /\ last.url # last.host
    /\ last.url # <<>>
    /\ results = last.url
    /\ last.resultsIn # results

\* C3: when the entry function returns a string holding a code unit above
\* 0x7F, GetProxyForURL returns ERR_PAC_SCRIPT_FAILED and never OK,
\* wherever in the string that code unit is.
C3_NonAsciiFails ==
    (AfterGet /\ last.called /\ last.ret.type = "string"
        /\ HasNonAscii(last.ret.str)) =>
        /\ last.rv = ERR_PAC_SCRIPT_FAILED
        /\ last.rv # OK

\* A failed call whose script returned a string that starts with an ASCII
\* code unit and holds a non-ASCII one later.
C3_Witness ==
    /\ AfterGet
    /\ last.called
    /\ last.ret.type = "string"
    /\ Len(last.ret.str) > 1
    /\ last.ret.str[1] <= 127
    /\ HasNonAscii(last.ret.str)
    /\ last.rv = ERR_PAC_SCRIPT_FAILED

\* C4: the caller's result string is always pure ASCII, and a failed
\* GetProxyForURL has not written it.
C4_NonAsciiNeverForwarded ==
    /\ ~HasNonAscii(results)
    /\ (AfterGet /\ last.rv # OK) => results = last.resultsIn

\* C5: a failed SetPacScript leaves no context, whatever was loaded
\* before, and a GetProxyForURL made next returns ERR_FAILED without
\* calling any script.
C5_FailedSetScriptDiscardsContext ==
    (AfterSet /\ last.rv # OK) =>
        /\ context_ = NULL
        /\ \A u \in Urls, h \in Hosts :
             LET e == GetProxyForURL(context_, u, h, results)
             IN  e.rv = ERR_FAILED /\ ~e.called /\ e.results = results

\* A script with no entry function refused while a context was loaded.
C5_Witness ==
    /\ AfterSet
    /\ last.hadContext
    /\ last.rv # OK
    /\ FailureKind(last.script) = "EntryMissing"
    /\ context_ = NULL

\* C6 as stated: the status of a failed SetPacScript tells the failures
\* apart: a script failing for another reason would get another status.
C6_FailureStatusesDistinct ==
    (AfterSet /\ last.rv # OK) =>
        \A s \in PacScripts :
            (FailureKind(s) \notin {"OK", FailureKind(last.script)}) =>
                SetPacScript(context_, s).rv # last.rv

\* C6 amended: SetPacScript returns OK exactly for a non-empty script that
\* compiles, runs and defines a callable entry function; an empty script,
\* a script that fails to compile or run, and a script without a callable
\* entry function all get the one status ERR_PAC_SCRIPT_FAILED.
C6_OneFailureStatus ==
    AfterSet =>
        /\ (FailureKind(last.script) = "OK" <=> last.rv = OK)
        /\ (FailureKind(last.script) # "OK" =>
               last.rv = ERR_PAC_SCRIPT_FAILED)

\* A script that runs but defines no callable entry function, refused.
C6_Witness ==
    /\ AfterSet
    /\ FailureKind(last.script) = "EntryMissing"
    /\ last.script.entry = "not_callable"
    /\ last.rv = ERR_PAC_SCRIPT_FAILED

\* C7: PurgeMemory with no context loaded completes normally, takes no
\* engine lock and leaves the resolver as it was.
C7_PurgeWithoutContextIsNoOp ==
    (AfterPurge /\ ~last.hadContext) =>
        /\ ~crashed
        /\ ~last.locked
        /\ context_ = NULL

\* C8: PurgeMemory with a context loaded leaves the context and the
\* caller's string unchanged, so every GetProxyForURL answers afterwards
\* as it would have answered before.
C8_PurgeKeepsContext ==
    [][(last'.op = "PurgeMemory" /\ context_ # NULL) =>
          /\ context_' = context_
          /\ results' = results
          /\ \A u \in Urls, h \in Hosts :
               GetProxyForURL(context_', u, h, results') =
                   GetProxyForURL(context_, u, h, results)]_vars

\* A purge of a context whose script has changed its own global data.
C8_Witness ==
    /\ AfterPurge
    /\ last.hadContext
    /\ context_ # NULL
    /\ context_.v8_context_.body = "toggle"
    /\ context_.v8_context_.toggle = 1

\* Every step of building a context succeeded.
FullyBuilt(ctx) ==
    /\ ctx.v8_this_
    /\ ctx.v8_context_.bindings = BindingNames
    /\ ctx.v8_context_.ran = {kPacUtilityResourceName, kPacResourceName}

\* C9 as stated: a held context is fully built and its entry function is
\* present and callable.
C9_HeldContextAlwaysCallable ==
    context_ # NULL =>
        /\ FullyBuilt(context_)
        /\ context_.v8_context_.FindProxyForURL = "function"

\* C9 amended: a held context is fully built (bindings, utility library
\* and user script all installed), and its entry function is present and
\* callable when SetPacScript returns; a script may afterwards replace its
\* own entry function, and the context is still held.
C9_HeldContextFullyBuilt ==
    context_ # NULL =>
        /\ FullyBuilt(context_)
        /\ (AfterSet => context_.v8_context_.FindProxyForURL = "function")
        /\ (context_.v8_context_.FindProxyForURL # "function" =>
               \A u \in Urls, h \in Hosts :
                   GetProxyForURL(context_, u, h, results).rv =
                       ERR_PAC_SCRIPT_FAILED)

\* A context still held after its script removed its own entry function.
C9_Witness ==
    /\ context_ # NULL
    /\ AfterGet
    /\ last.rv = OK
    /\ context_.v8_context_.FindProxyForURL # "function"

\* C10: GetProxyForURL never changes whether a context is loaded nor which
\* script it holds, whatever the call's outcome, and only SetPacScript
\* moves the resolver between loaded and not loaded.
C10_GetKeepsReadiness ==
    [][/\ (last'.op = "GetProxyForURL" =>
             /\ (context_' = NULL) <=> (context_ = NULL)
             /\ (context_ # NULL =>
                   /\ context_'.v8_context_.body = context_.v8_context_.body
                   /\ context_'.v8_context_.ran = context_.v8_context_.ran
                   /\ context_'.v8_context_.bindings =
                          context_.v8_context_.bindings))
       /\ (((context_' = NULL) # (context_ = NULL)) =>
             last'.op = "SetPacScript")]_vars

\* A call that failed on a thrown exception, its context still loaded.
C10_Witness ==
    /\ AfterGet
    /\ last.hadContext
    /\ last.called
    /\ last.rv = ERR_PAC_SCRIPT_FAILED
    /\ last.errors = <<"Uncaught exception">>
    /\ context_ # NULL

\* C13: the process-wide platform initialization runs at most once,
\* however many threads construct resolvers and however they interleave.
C13_PlatformInitAtMostOnce == platformInits <= 1

\* The caller's string after a failed call is what it was before the call
\* or the very string the script returned: nothing made up by the resolver.
NothingSynthesized ==
    \/ results = last.resultsIn
    \/ (last.ret.type = "string" /\ results = last.ret.str)

\* C14 as stated: every GetProxyForURL that returns a failure status has
\* delivered a diagnostic to ErrorMessage, the call returns (a script
\* exception is not propagated), and no directive is synthesized.
C14_EveryFailureDiagnosed ==
    (AfterGet /\ last.rv # OK) =>
        /\ last.errors # <<>>
        /\ ~crashed
        /\ NothingSynthesized

\* C14 amended: a GetProxyForURL that returns ERR_PAC_SCRIPT_FAILED has
\* delivered exactly one diagnostic to ErrorMessage; one that returns
\* ERR_FAILED (no context loaded) has delivered none.  A script exception
\* ends in ERR_PAC_SCRIPT_FAILED with the call returning normally, and no
\* directive is synthesized on failure.
C14_ScriptFailureDiagnosed ==
    (AfterGet /\ last.rv # OK) =>
        /\ \/ (last.rv = ERR_PAC_SCRIPT_FAILED /\ last.hadContext
                  /\ Len(last.errors) = 1)
           \/ (last.rv = ERR_FAILED /\ ~last.hadContext
                  /\ last.errors = <<>>)
        /\ ~crashed
        /\ NothingSynthesized

\* A call whose script threw, made with the caller's string already
\* holding an earlier answer.
C14_Witness ==
    /\ AfterGet
    /\ last.called
    /\ last.ret = JSUndefined
    /\ last.rv = ERR_PAC_SCRIPT_FAILED
    /\ last.errors = <<"Uncaught exception">>
    /\ results = last.resultsIn
    /\ results # <<>>

----------------------------------------------------------------------------
(* Properties of the network bindings, under SpecBindings. *)

\* The first argument is missing, not a string, or has a non-ASCII unit.
InvalidHostnameArg(args) ==
    \/ Len(args) = 0
    \/ args[1].type # "string"
    \/ HasNonAscii(args[1].str)

\* The script-visible string with the same characters as a narrow string.
SeenAs(bytes) == [type |-> "string", str |-> bytes]

\* C15: dnsResolve has exactly three outcomes: with a missing, non-string
\* or non-ASCII first argument it sets no return value and does not call
\* the collaborator; with an ASCII string it returns the collaborator's
\* string when the lookup succeeds and explicit null when it fails.  It
\* never faults.
C15_DnsResolveOutcomes ==
    (bcall.name = "dnsResolve" /\ bcall.done) =>
        /\ ~bcall.r.fault
        /\ IF InvalidHostnameArg(bcall.args)
           THEN ~bcall.r.set /\ ~bcall.r.called
           ELSE /\ bcall.r.called
                /\ bcall.r.set
                /\ IF bcall.collab.success
                   THEN bcall.r.value = SeenAs(bcall.collab.out)
                   ELSE bcall.r.value = JSNull

\* dnsResolve was called with a non-ASCII hostname and set no return value.
C15_Witness ==
    /\ bcall.name = "dnsResolve"
    /\ bcall.done
    /\ Len(bcall.args) > 0
    /\ bcall.args[1].type = "string"
    /\ HasNonAscii(bcall.args[1].str)
    /\ ~bcall.r.set
    /\ ~bcall.r.called

\* C16: dnsResolveEx returns explicit null, without calling the
\* collaborator, when its first argument is missing, not a string or not
\* ASCII; otherwise it returns the collaborator's list when the lookup
\* succeeds and the empty string when it fails, whatever the collaborator
\* wrote.
C16_DnsResolveExOutcomes ==
    (bcall.name = "dnsResolveEx" /\ bcall.done) =>
        /\ bcall.r.set
        /\ IF InvalidHostnameArg(bcall.args)
           THEN bcall.r.value = JSNull /\ ~bcall.r.called
           ELSE /\ bcall.r.called
                /\ IF bcall.collab.success
                   THEN bcall.r.value = SeenAs(bcall.collab.out)
                   ELSE bcall.r.value = SeenAs(<<>>)

\* A failed lookup that had written a list returned the empty string.
C16_Witness ==
    /\ bcall.name = "dnsResolveEx"
    /\ bcall.done
    /\ ~InvalidHostnameArg(bcall.args)
    /\ ~bcall.collab.success
    /\ bcall.collab.out # <<>>
    /\ bcall.r.called
    /\ bcall.r.value = SeenAs(<<>>)

\* C17: on a collaborator failure myIpAddress returns "127.0.0.1" and
\* myIpAddressEx returns the empty string, whatever the collaborator wrote;
\* on success each returns the collaborator's string unchanged.  Neither
\* returns anything but a string.
C17_MyIpAddressFallbacks ==
    (bcall.name \in {"myIpAddress", "myIpAddressEx"} /\ bcall.done) =>
        /\ bcall.r.set
        /\ bcall.r.value.type = "string"
        /\ bcall.r.called
        /\ IF bcall.collab.success
           THEN bcall.r.value = SeenAs(bcall.collab.out)
           ELSE IF bcall.name = "myIpAddress"
           THEN bcall.r.value = SeenAs(<<49, 50, 55, 46, 48, 46, 48, 46, 49>>)
           ELSE bcall.r.value = SeenAs(<<>>)

\* myIpAddress fell back to the loopback address although the collaborator
\* had written an address before failing.
C17_Witness ==
    /\ bcall.name = "myIpAddress"
    /\ bcall.done
    /\ ~bcall.collab.success
    /\ bcall.collab.out # <<>>
    /\ bcall.r.value.str = <<49, 50, 55, 46, 48, 46, 48, 46, 49>>

----------------------------------------------------------------------------
(* Properties of SortIpAddressList and its binding, under SpecBindings. *)

AfterSort == bcall.name = "SortIpAddressList" /\ bcall.done

\* The ';'-delimited tokens of the input, spaces and tabs stripped.
StripWs(str) == SelectSeq(str, LAMBDA c : c # 32 /\ c # 9)
ClaimTokens(ps) ==
    SelectSeq([i \in 1..Len(ps) |-> StripWs(ps[i])], LAMBDA t : t # <<>>)
IsIpLiteral(t) == ParseIPLiteralToNumber(t).ok
RawBytes(t) == ParseIPLiteralToNumber(t).number

\* Strictly ascending lexicographic order of two equally long byte strings.
LexLess(a, b) ==
    \E k \in 1..Len(a) :
        /\ a[k] < b[k]
        /\ \A j \in 1..(k - 1) : a[j] = b[j]

\* C18: on success the output of SortIpAddressList is a permutation of the
\* input's address tokens in their original textual form, joined by ';':
\* every 16-byte address before every 4-byte address, equal lengths in
\* ascending lexicographic order of the raw bytes, equal bytes in input
\* order.
C18_SortedStablePermutation ==
    (AfterSort /\ bcall.r.success) =>
        LET toks == ClaimTokens(bcall.pieces)
            n    == Len(toks)
        IN  \E p \in {q \in [1..n -> 1..n] :
                         \A i, j \in 1..n : i # j => q[i] # q[j]} :
                /\ bcall.r.sorted =
                       JoinWith([i \in 1..n |-> toks[p[i]]], <<59>>)
                /\ \A i, j \in 1..n : i < j =>
                       LET a == RawBytes(toks[p[i]])
                           b == RawBytes(toks[p[j]])
                       IN  /\ Len(a) >= Len(b)
                           /\ (Len(a) = Len(b) /\ a # b) => LexLess(a, b)
                           /\ a = b => p[i] < p[j]

\* C19: SortIpAddressList fails, leaving its output empty, whenever the
\* stripped input is empty, has only ';' separators, or has a token that
\* does not parse as an IP literal; it succeeds only when there is at least
\* one token and every token parses.
C19_FailsUnlessAllTokensParse ==
    AfterSort =>
        LET toks == ClaimTokens(bcall.pieces)
        IN  /\ bcall.r.success <=>
                   /\ toks # <<>>
                   /\ \A i \in 1..Len(toks) : IsIpLiteral(toks[i])
            /\ ~bcall.r.success => bcall.r.sorted = <<>>

\* C20: the sortIpAddressList binding has exactly three outcomes: explicit
\* null when the first argument is missing or not a string; boolean false
\* when the argument is a string that SortIpAddressList fails on; otherwise
\* the sorted list.  It never returns an empty string.
C20_SortBindingThreeOutcomes ==
    (bcall.name = "sortIpAddressList" /\ bcall.done) =>
        /\ ~bcall.r.fault
        /\ bcall.r.set
        /\ bcall.r.value # SeenAs(<<>>)
        /\ IF Len(bcall.args) = 0 \/ bcall.args[1].type # "string"
           THEN bcall.r.value = JSNull
           ELSE LET expected ==
                        SortIpAddressList(Utf8Encode(bcall.args[1].str))
                IN  IF expected.success
                    THEN bcall.r.value = SeenAs(expected.sorted)
                    ELSE bcall.r.value = JSBoolean(FALSE)

----------------------------------------------------------------------------
(* Properties of the isolate lock, under SpecThreads. *)

\* Where a thread is doing work on the isolate.
EngineWork ==
    {"teardown", "loading", "evaluate", "binding_entry", "set_return",
     "purging"}

\* C11: for every interleaving of threads calling GetProxyForURL and
\* PurgeMemory on a loaded context, at most one thread at a time does
\* engine work, and script loading, evaluation, purging and teardown each
\* hold the isolate's lock for all of their engine work.
C11_EngineWorkExclusive ==
    /\ \A t, u \in Threads :
           (pc[t] \in EngineWork /\ pc[u] \in EngineWork) => t = u
    /\ \A t \in Threads : pc[t] \in EngineWork => lockHolders = {t}

\* One thread purges while another's evaluation waits in the collaborator.
C11_Witness ==
    \E t, u \in Threads :
        /\ pc[t] = "collab"
        /\ pc[u] = "purging"
        /\ lockHolders = {u}

\* C12: in myIpAddress, myIpAddressEx, dnsResolve and dnsResolveEx the
\* collaborator is called while the calling thread does not hold the
\* isolate's lock, and the thread holds it again before the binding sets
\* its return value and returns to the engine.
C12_CollaboratorCalledUnlocked ==
    \A t \in Threads :
        /\ pc[t] = "collab" => (binding[t] \in NetworkBindings /\ t \notin lockHolders)
        /\ pc[t] = "set_return" => t \in lockHolders

\* A thread back from the collaborator holds the lock and sets its return
\* value while another, also back, still waits for the lock.
C12_Witness ==
    \E t, u \in Threads :
        /\ pc[t] = "set_return"
        /\ binding[t] = "dnsResolve"
        /\ t \in lockHolders
        /\ pc[u] = "relock"

----------------------------------------------------------------------------
(* Properties of isInNetEx, under SpecBindings. *)

\* Bit k (1 is the topmost) of a byte string.
BitOf(bytes, k) ==
    (bytes[((k - 1) \div 8) + 1] \div Pow2(7 - ((k - 1) % 8))) % 2

\* The address is in the prefix's network, as the claim words it.
ClaimInNet(addr, prefix) ==
    /\ \A i \in 1..Len(addr) : addr[i] # 32 /\ addr[i] # 9
    /\ IsIpLiteral(addr)
    /\ ParseCIDRBlock(prefix).ok
    /\ Len(RawBytes(addr)) = Len(ParseCIDRBlock(prefix).prefix)
    /\ \A k \in 1..ParseCIDRBlock(prefix).prefix_length_in_bits :
           BitOf(RawBytes(addr), k) = BitOf(ParseCIDRBlock(prefix).prefix, k)

\* C21: isInNetEx returns explicit null when fewer than two arguments are
\* given or one of the first two is not a string; otherwise it returns a
\* boolean, true exactly when the address has no space or tab, parses as an
\* IP literal, the prefix parses as address/bitlength, both are of one
\* family and the top bitlength bits agree.
C21_IsInNetExOutcomes ==
    (bcall.name = "isInNetEx" /\ bcall.done) =>
        /\ ~bcall.r.fault
        /\ bcall.r.set
        /\ IF \/ Len(bcall.args) < 2
              \/ bcall.args[1].type # "string"
              \/ bcall.args[2].type # "string"
           THEN bcall.r.value = JSNull
           ELSE /\ bcall.r.value.type = "boolean"
                /\ bcall.r.value.bool =
                       ClaimInNet(Utf8Encode(bcall.args[1].str),
                                  Utf8Encode(bcall.args[2].str))

----------------------------------------------------------------------------
(* Progress beside a blocked lookup, under SpecThreadsFair. *)

\* C23: while one thread's GetProxyForURL is inside a collaborator call,
\* even one that never returns, a PurgeMemory or GetProxyForURL issued by
\* another thread gets the isolate's lock and completes, unless it enters
\* a collaborator call itself.
C23_BlockedLookupDoesNotStarve ==
    \A t, u \in Threads :
        (t # u /\ pc[t] = "collab" /\ pc[u] \in {"purge_wait", "resolve_wait"})
            ~> (pc[u] = "idle" \/ pc[u] = "collab")

\* While one thread's lookup is still with the collaborator, another
\* thread's evaluation has the lock.
C23_Witness ==
    \E t, u \in Threads :
        /\ pc[t] = "collab"
        /\ pc[u] = "evaluate"
        /\ lockHolders = {u}
        /\ ncalls[u] = 0

----------------------------------------------------------------------------
(* Replacing the script beside running calls, under SpecRace. *)

C24_ContextOutlivesCalls ==
    \A t \in Threads : callCtx[t] # "freed" /\ pc[t] # "fault"

============================================================================
